---- MODULE Spec2Model ----
(***************************************************************************)
(* Packet replication (multicast group) entry translation between the      *)
(* PDPI IR and the P4RT AppDb table, and the AppDb/cache comparison, of    *)
(* p4rt_app/sonic/packet_replication_entry_translation.cc.                 *)
(*                                                                         *)
(* A std::string is a sequence of one-character strings.  A uint32_t is a  *)
(* pair of 16-bit halves [hi, lo] standing for hi * 2^16 + lo, so that the *)
(* whole 32-bit range is there.  An absl::Status is "OK" or                *)
(* "INVALID_ARGUMENT".                                                     *)
(***************************************************************************)
EXTENDS Naturals, Integers, Sequences, FiniteSets, Bags, TLC

VARIABLES
    pc,               \* what the driver did last
    replica,          \* field codec: the replica being encoded
    port_instance,    \* field codec: the field name built for `replica`
    decoded,          \* field codec: what the reader makes of port_instance
    update_type,      \* serializer: update_type of the last call
    entry,            \* serializer: entry of the last call
    kfv_before,       \* serializer: kfv_updates as the last call received it
    kfv_updates,      \* serializer: the caller's output vector
    kfv_initial,      \* serializer: the vector before the first call
    calls,            \* serializer: the calls made so far, with their status
    update_key,       \* serializer: StatusOr<std::string> of the last call
    app_db,           \* the P4RT AppDb table: <<[key, fvs]>> in keys() order
    pre_entries,      \* reader: StatusOr<vector<entry>> of the last read
    entries_app_db,   \* comparison: first argument
    entries_cache,    \* comparison: second argument
    failures          \* comparison: returned vector

vars == <<pc, replica, port_instance, decoded, update_type, entry, kfv_before,
          kfv_updates, kfv_initial, calls, update_key, app_db, pre_entries,
          entries_app_db, entries_cache, failures>>

(***************************************************************************)
(* Bounds of the model.                                                    *)
(***************************************************************************)
MaxReplicas == 2      \* replicas per entry handed to the serializer
MaxUpdates == 2       \* calls batched into one kfv_updates vector
MaxKeys == 2          \* keys in the AppDb table
MaxFields == 2        \* fields in the AppDb table, over all its keys
MaxEntries == 2       \* entries per argument of the comparison
MaxDiffReplicas == 3  \* replicas in the two arguments of the comparison

\* uint32_t: hi * 2^16 + lo.
U32(hi, lo) == [hi |-> hi, lo |-> lo]

\* std::numeric_limits<uint32_t>::max().
UINT32_MAX == U32(65535, 65535)

\* a < b on uint32_t.
Less(a, b) == a.hi < b.hi \/ (a.hi = b.hi /\ a.lo < b.lo)

\* Quotient and remainder of a uint32_t by a divisor of at most 16.
DivMod(n, d) ==
    LET mid == (n.hi % d) * 65536 + n.lo
    IN [q |-> U32(n.hi \div d, mid \div d), r |-> mid % d]

(***************************************************************************)
(* Strings and numbers.                                                    *)
(***************************************************************************)
\* Sequences over S of length at most n.
SeqUpTo(S, n) == UNION {[1..k -> S] : k \in 0..n}

\* Sequences without a repeated element.
NoDup(s) == \A i, j \in 1..Len(s) : s[i] = s[j] => i = j

\* The elements of a sequence.
Range(s) == {s[i] : i \in 1..Len(s)}

LowerHexDigits ==
    <<"0", "1", "2", "3", "4", "5", "6", "7", "8", "9", "a", "b", "c", "d", "e", "f">>

UpperHexDigits ==
    <<"0", "1", "2", "3", "4", "5", "6", "7", "8", "9", "A", "B", "C", "D", "E", "F">>

\* absl::Hex(uint32_t) under absl::StrCat: lower case, no padding.
RECURSIVE Hex(_)
Hex(n) ==
    IF n.hi = 0 /\ n.lo < 16 THEN <<LowerHexDigits[n.lo + 1]>>
    ELSE Hex(DivMod(n, 16).q) \o <<LowerHexDigits[DivMod(n, 16).r + 1]>>

\* absl::StrCat of a uint32_t: decimal, no padding.
RECURSIVE Dec(_)
Dec(n) ==
    IF n.hi = 0 /\ n.lo < 10 THEN <<LowerHexDigits[n.lo + 1]>>
    ELSE Dec(DivMod(n, 10).q) \o <<LowerHexDigits[DivMod(n, 10).r + 1]>>

\* absl::StartsWith.
StartsWith(text, prefix) ==
    /\ Len(text) >= Len(prefix)
    /\ SubSeq(text, 1, Len(prefix)) = prefix

\* std::string::find(":"): the position of the first ':', 0 for npos.
FindFirst(text) ==
    LET hits == {i \in 1..Len(text) : text[i] = ":"}
    IN IF hits = {} THEN 0 ELSE CHOOSE i \in hits : \A j \in hits : i <= j

\* std::string::rfind(":"): the 1-based position of the last ':', 0 for npos.
RFind(text) ==
    LET hits == {i \in 1..Len(text) : text[i] = ":"}
    IN IF hits = {} THEN 0 ELSE CHOOSE i \in hits : \A j \in hits : j <= i

\* absl::ascii_isspace, as far as a TLA+ string can spell it.
IsSpace(c) == c \in {" ", "\t", "\n", "\r"}

\* kAsciiToInt of absl/strings/numbers.cc: 36 for a character that is no digit.
DigitValue(c) ==
    IF \E d \in 1..16 : LowerHexDigits[d] = c
    THEN (CHOOSE d \in 1..16 : LowerHexDigits[d] = c) - 1
    ELSE IF \E d \in 1..16 : UpperHexDigits[d] = c
    THEN (CHOOSE d \in 1..16 : UpperHexDigits[d] = c) - 1
    ELSE 36

\* safe_parse_sign_and_base for base 16: trims ASCII whitespace on both
\* sides, consumes one sign, then one "0x"/"0X" that is followed by something.
RECURSIVE StripLeft(_)
StripLeft(text) ==
    IF Len(text) > 0 /\ IsSpace(text[1]) THEN StripLeft(Tail(text)) ELSE text

RECURSIVE StripRight(_)
StripRight(text) ==
    IF Len(text) > 0 /\ IsSpace(text[Len(text)])
    THEN StripRight(SubSeq(text, 1, Len(text) - 1)) ELSE text

SafeParseSignAndBase(text) ==
    LET t1 == StripRight(StripLeft(text))
        neg == Len(t1) > 0 /\ t1[1] = "-"
        signed == Len(t1) > 0 /\ t1[1] \in {"-", "+"}
        t2 == IF signed THEN Tail(t1) ELSE t1
        marked == Len(t2) >= 2 /\ t2[1] = "0" /\ t2[2] \in {"x", "X"}
        t3 == IF marked THEN SubSeq(t2, 3, Len(t2)) ELSE t2
    IN IF Len(t1) = 0 \/ Len(t2) = 0 \/ Len(t3) = 0
       THEN [ok |-> FALSE, text |-> <<>>, negative |-> neg]
       ELSE [ok |-> TRUE, text |-> t3, negative |-> neg]

\* safe_parse_positive_int<uint32_t> for base 16: fails on a non-digit and on
\* a value above UINT32_MAX.
RECURSIVE SafeParsePositiveInt(_, _)
SafeParsePositiveInt(text, value) ==
    IF Len(text) = 0 THEN [ok |-> TRUE, value |-> value]
    ELSE LET digit == DigitValue(text[1])
         IN IF digit >= 16 THEN [ok |-> FALSE, value |-> value]
            ELSE IF Less(DivMod(UINT32_MAX, 16).q, value)
            THEN [ok |-> FALSE, value |-> UINT32_MAX]
            ELSE LET shifted == U32(value.hi * 16 + value.lo \div 4096,
                                    (value.lo % 4096) * 16)
                 IN IF Less(U32(65535, 65535 - digit), shifted)
                    THEN [ok |-> FALSE, value |-> UINT32_MAX]
                    ELSE SafeParsePositiveInt(Tail(text),
                             U32(shifted.hi, shifted.lo + digit))

\* absl::SimpleHexAtoi(text, uint32_t*).
SimpleHexAtoi(text) ==
    LET base == SafeParseSignAndBase(text)
    IN IF ~base.ok \/ base.negative THEN [ok |-> FALSE, value |-> U32(0, 0)]
       ELSE SafeParsePositiveInt(base.text, U32(0, 0))

(***************************************************************************)
(* Key and field encoding.                                                 *)
(***************************************************************************)
\* APP_P4RT_REPLICATION_IP_MULTICAST_TABLE_NAME of swss/schema.h.
TableName ==
    <<"R", "E", "P", "L", "I", "C", "A", "T", "I", "O", "N", "_", "I", "P", "_",
      "M", "U", "L", "T", "I", "C", "A", "S", "T", "_", "T", "A", "B", "L", "E">>

TablePrefix == TableName \o <<":">>

\* StatusOr<std::string>: the key without the table prefix.
StripTableName(app_db_key) ==
    IF ~StartsWith(app_db_key, TablePrefix)
    THEN [status |-> "INVALID_ARGUMENT", value |-> <<>>]
    ELSE [status |-> "OK",
          value |-> SubSeq(app_db_key, Len(TablePrefix) + 1, Len(app_db_key))]

\* The key body of a multicast group: hex(group_id), lower case, no 0x marker.
IrMulticastGroupEntryToAppDbKey(multicast_group_entry) ==
    Hex(multicast_group_entry.multicast_group_id)

\* <table_name>:<multicast_group_id>
GetRedisPacketReplicationTableKey(e) ==
    TablePrefix \o IrMulticastGroupEntryToAppDbKey(e)

\* The field name with the instance in decimal behind the hex marker.
PortInstanceDecimal(r) == r.port \o <<":", "0", "x">> \o Dec(r.instance)

\* The field name of one replica: port ":0x" hex(instance).
PortInstance(r) == r.port \o <<":", "0", "x">> \o Hex(r.instance)

\* The fields of a SET: one per replica, in the entry's order, value "replica".
RECURSIVE FieldsValues(_)
FieldsValues(replicas) ==
    IF Len(replicas) = 0 THEN <<>>
    ELSE <<[field |-> PortInstance(Head(replicas)), value |-> "replica"]>>
         \o FieldsValues(Tail(replicas))

\* The SET tuple put in the place of an earlier tuple of the same key, when
\* there is one, instead of behind the vector's last tuple.
CreateEntryForInsertMerging(e, p4rt_inserts) ==
    LET key == GetRedisPacketReplicationTableKey(e)
        key_value == [key |-> key, op |-> "SET", fvs |-> FieldsValues(e.replicas)]
    IN [key |-> key,
        kfvs |-> IF \E i \in 1..Len(p4rt_inserts) : p4rt_inserts[i].key = key
                 THEN [i \in 1..Len(p4rt_inserts) |->
                         IF p4rt_inserts[i].key = key THEN key_value
                         ELSE p4rt_inserts[i]]
                 ELSE Append(p4rt_inserts, key_value)]

\* Returns the key and the vector with the SET tuple pushed back.
CreateEntryForInsert(e, p4rt_inserts) ==
    LET key == GetRedisPacketReplicationTableKey(e)
        key_value == [key |-> key, op |-> "SET", fvs |-> FieldsValues(e.replicas)]
    IN [key |-> key, kfvs |-> Append(p4rt_inserts, key_value)]

\* Returns the key and the vector with the DEL tuple pushed back.
CreateEntryForDelete(e, p4rt_deletes) ==
    LET key == GetRedisPacketReplicationTableKey(e)
        key_value == [key |-> key, op |-> "DEL", fvs |-> <<>>]
    IN [key |-> key, kfvs |-> Append(p4rt_deletes, key_value)]

\* p4::v1::Update::Type.
UpdateTypes == {"UNSPECIFIED", "INSERT", "MODIFY", "DELETE"}

\* The switch with MODIFY falling into the DELETE case.
UpdateWithModifyAsDelete(type, e, kfvs) ==
    IF type = "INSERT"
    THEN LET r == CreateEntryForInsert(e, kfvs)
         IN [status |-> "OK", key |-> r.key, kfvs |-> r.kfvs]
    ELSE IF type \in {"MODIFY", "DELETE"}
    THEN LET r == CreateEntryForDelete(e, kfvs)
         IN [status |-> "OK", key |-> r.key, kfvs |-> r.kfvs]
    ELSE [status |-> "INVALID_ARGUMENT", key |-> <<>>, kfvs |-> kfvs]

\* The switch with the default case falling into the INSERT case.
UpdateWithDefaultAsInsert(type, e, kfvs) ==
    IF type = "DELETE"
    THEN LET r == CreateEntryForDelete(e, kfvs)
         IN [status |-> "OK", key |-> r.key, kfvs |-> r.kfvs]
    ELSE LET r == CreateEntryForInsert(e, kfvs)
         IN [status |-> "OK", key |-> r.key, kfvs |-> r.kfvs]

\* StatusOr<std::string> and the vector as the call leaves it.
CreatePacketReplicationTableUpdateForAppDb(type, e, kfvs) ==
    IF type \in {"INSERT", "MODIFY"}
    THEN LET r == CreateEntryForInsert(e, kfvs)
         IN [status |-> "OK", key |-> r.key, kfvs |-> r.kfvs]
    ELSE IF type = "DELETE"
    THEN LET r == CreateEntryForDelete(e, kfvs)
         IN [status |-> "OK", key |-> r.key, kfvs |-> r.kfvs]
    ELSE [status |-> "INVALID_ARGUMENT", key |-> <<>>, kfvs |-> kfvs]

(***************************************************************************)
(* Reading the table back.                                                 *)
(***************************************************************************)
\* Every key of the table, in keys() order.
AllKeys(db) == [i \in 1..Len(db) |-> db[i].key]

\* The keys of the table that start with the table prefix, in keys() order.
GetAllPacketReplicationTableEntryKeys(db) ==
    LET Keys(s) == [i \in 1..Len(s) |-> s[i].key]
    IN SelectSeq(Keys(db), LAMBDA key : StartsWith(key, TablePrefix))

\* app_db->get(key): the field/value pairs stored under key.
Get(db, key) ==
    IF \E i \in 1..Len(db) : db[i].key = key
    THEN db[CHOOSE i \in 1..Len(db) : db[i].key = key].fvs
    ELSE <<>>

\* One field name of a key: split at the last ':', hex-parse the suffix.
DecodeField(field) ==
    LET value_split == RFind(field)
        port == SubSeq(field, 1, value_split - 1)
        instance_str == SubSeq(field, value_split + 1, Len(field))
        instance == SimpleHexAtoi(instance_str)
    IN IF value_split = 0
       THEN [status |-> "INVALID_ARGUMENT", port |-> <<>>, instance |-> U32(0, 0)]
       ELSE IF ~instance.ok
       THEN [status |-> "INVALID_ARGUMENT", port |-> <<>>, instance |-> U32(0, 0)]
       ELSE [status |-> "OK", port |-> port, instance |-> instance.value]

\* The replicas of one key, or the first failure among its fields.
RECURSIVE BuildReplicas(_, _)
BuildReplicas(fvs, replicas) ==
    IF Len(fvs) = 0 THEN [status |-> "OK", replicas |-> replicas]
    ELSE LET d == DecodeField(Head(fvs).field)
         IN IF d.status # "OK"
            THEN [status |-> "INVALID_ARGUMENT", replicas |-> <<>>]
            ELSE BuildReplicas(Tail(fvs),
                     Append(replicas, [port |-> d.port, instance |-> d.instance]))

\* The loop over the keys with `continue` where the code returns: a key that
\* fails is left out.
RECURSIVE ReadKeysSkipping(_, _, _)
ReadKeysSkipping(db, keys, entries) ==
    IF Len(keys) = 0 THEN [status |-> "OK", entries |-> entries]
    ELSE LET key == Head(keys)
             multicast_group_id == StripTableName(key)
             group_id == SimpleHexAtoi(multicast_group_id.value)
             built == BuildReplicas(Get(db, key), <<>>)
         IN IF multicast_group_id.status # "OK" \/ ~group_id.ok \/ built.status # "OK"
            THEN ReadKeysSkipping(db, Tail(keys), entries)
            ELSE ReadKeysSkipping(db, Tail(keys),
                     Append(entries, [multicast_group_id |-> group_id.value,
                                      replicas |-> built.replicas]))

\* The loop over the keys: returns at the first key or field that fails.
RECURSIVE ReadKeys(_, _, _)
ReadKeys(db, keys, entries) ==
    IF Len(keys) = 0 THEN [status |-> "OK", entries |-> entries]
    ELSE LET key == Head(keys)
             multicast_group_id == StripTableName(key)
             group_id == SimpleHexAtoi(multicast_group_id.value)
             built == BuildReplicas(Get(db, key), <<>>)
         IN IF multicast_group_id.status # "OK"
            THEN [status |-> "INVALID_ARGUMENT", entries |-> <<>>]
            ELSE IF ~group_id.ok
            THEN [status |-> "INVALID_ARGUMENT", entries |-> <<>>]
            ELSE IF built.status # "OK"
            THEN [status |-> "INVALID_ARGUMENT", entries |-> <<>>]
            ELSE ReadKeys(db, Tail(keys),
                     Append(entries, [multicast_group_id |-> group_id.value,
                                      replicas |-> built.replicas]))

\* The read over every key of the table, whatever its prefix.
GetAllEntriesOfAllKeys(db) == ReadKeys(db, AllKeys(db), <<>>)

GetAllAppDbPacketReplicationTableEntries(db) ==
    ReadKeys(db, GetAllPacketReplicationTableEntryKeys(db), <<>>)

(***************************************************************************)
(* The table as the store keeps it.                                        *)
(***************************************************************************)
\* One KeyOpFieldsValuesTuple applied to the table: SET puts the tuple's
\* fields under its key in place of what was there, DEL removes the key.
ApplyUpdate(db, kfv) ==
    LET without == SelectSeq(db, LAMBDA row : row.key # kfv.key)
    IN IF kfv.op = "SET"
       THEN IF \E i \in 1..Len(db) : db[i].key = kfv.key
            THEN [i \in 1..Len(db) |->
                    IF db[i].key = kfv.key THEN [key |-> kfv.key, fvs |-> kfv.fvs]
                    ELSE db[i]]
            ELSE Append(db, [key |-> kfv.key, fvs |-> kfv.fvs])
       ELSE without

\* The tuples of a batch applied in order.
RECURSIVE ApplyAll(_, _)
ApplyAll(db, kfvs) ==
    IF Len(kfvs) = 0 THEN db
    ELSE ApplyAll(ApplyUpdate(db, Head(kfvs)), Tail(kfvs))

(***************************************************************************)
(* Comparing the AppDb entries with the cache.                             *)
(***************************************************************************)
\* The characters the model's strings use, in ASCII code order.
Ascii ==
    <<" ", "+", "-", "0", "1", "2", "3", "4", "5", "6", "7", "8", "9", ":",
      "A", "B", "C", "D", "E", "F", "G", "H", "I", "J", "K", "L", "M", "N", "O",
      "P", "Q", "R", "S", "T", "U", "V", "W", "X", "Y", "Z", "_",
      "a", "b", "c", "d", "e", "f", "g", "h", "i", "j", "k", "l", "m", "n", "o",
      "p", "q", "r", "s", "t", "u", "v", "w", "x", "y", "z">>

\* The rank of a character in code order (unsigned char comparison).
CharCode(c) == CHOOSE i \in 1..Len(Ascii) : Ascii[i] = c

\* operator< of std::string: lexicographic on the character codes.
RECURSIVE StringLess(_, _)
StringLess(a, b) ==
    IF Len(b) = 0 THEN FALSE
    ELSE IF Len(a) = 0 THEN TRUE
    ELSE IF Head(a) # Head(b) THEN CharCode(Head(a)) < CharCode(Head(b))
    ELSE StringLess(Tail(a), Tail(b))

\* The iteration order of an absl::btree_set<std::string>.
RECURSIVE InStringOrder(_)
InStringOrder(S) ==
    IF S = {} THEN <<>>
    ELSE LET first == CHOOSE x \in S : \A y \in S : x = y \/ StringLess(x, y)
         IN <<first>> \o InStringOrder(S \ {first})

\* The keys from the largest to the smallest.
RECURSIVE Descending(_)
Descending(S) ==
    IF S = {} THEN <<>>
    ELSE LET first == CHOOSE x \in S : \A y \in S : x = y \/ Less(y, x)
         IN <<first>> \o Descending(S \ {first})

\* The iteration order of the keys of an absl::btree_map<uint32_t, ...>.
RECURSIVE Ascending(_)
Ascending(S) ==
    IF S = {} THEN <<>>
    ELSE LET first == CHOOSE x \in S : \A y \in S : x = y \/ Less(x, y)
         IN <<first>> \o Ascending(S \ {first})

\* The comparison form of a replica: port "_" decimal(instance).
PortInstanceKey(r) == r.port \o <<"_">> \o Dec(r.instance)

\* std::set_difference of two btree_sets into a vector.
SetDifference(A, B) == InStringOrder(A \ B)

\* The comparison of two entries that reports only what the cache lacks.
CompareEntitiesOneWay(entity_app_db, entity_cache, fails) ==
    LET port_instance_app_db ==
            {PortInstanceKey(r) : r \in Range(entity_app_db.replicas)}
        port_instance_cache ==
            {PortInstanceKey(r) : r \in Range(entity_cache.replicas)}
        id == Dec(entity_app_db.multicast_group_id)
        missing_in_cache == SetDifference(port_instance_app_db, port_instance_cache)
    IN fails
       \o [i \in 1..Len(missing_in_cache) |->
              <<"Packet replication cache is missing replica ", missing_in_cache[i],
                " for group id ", id>>]

\* The failures vector after the replicas of two entries of one group id
\* are compared.  A message is the tuple of the pieces StrCat joins.
ComparePacketReplicationEntities(entity_app_db, entity_cache, fails) ==
    LET port_instance_app_db ==
            {PortInstanceKey(r) : r \in Range(entity_app_db.replicas)}
        port_instance_cache ==
            {PortInstanceKey(r) : r \in Range(entity_cache.replicas)}
        id == Dec(entity_app_db.multicast_group_id)
        missing_in_cache == SetDifference(port_instance_app_db, port_instance_cache)
        missing_in_app_db == SetDifference(port_instance_cache, port_instance_app_db)
    IN fails
       \o [i \in 1..Len(missing_in_cache) |->
              <<"Packet replication cache is missing replica ", missing_in_cache[i],
                " for group id ", id>>]
       \o [i \in 1..Len(missing_in_app_db) |->
              <<"APP DB is missing replica ", missing_in_app_db[i],
                " for group id ", id>>]

\* The map in which the first entry of a group id stays.
RECURSIVE GroupMapFirstWins(_, _)
GroupMapFirstWins(entries, map) ==
    IF Len(entries) = 0 THEN map
    ELSE LET e == Head(entries)
             id == e.multicast_group_id
         IN GroupMapFirstWins(Tail(entries),
                [k \in DOMAIN map \cup {id} |->
                    IF k \in DOMAIN map THEN map[k] ELSE e])

\* map[id] = entry for every entry of the vector, in order: the last one stays.
RECURSIVE GroupMap(_, _)
GroupMap(entries, map) ==
    IF Len(entries) = 0 THEN map
    ELSE LET e == Head(entries)
             id == e.multicast_group_id
         IN GroupMap(Tail(entries),
                     [k \in DOMAIN map \cup {id} |-> IF k = id THEN e ELSE map[k]])

EmptyMap == [k \in {} |-> 0]

\* The first loop without its `continue`: a group the cache lacks is also
\* compared, against the empty entry map_cache[id] then creates.
RECURSIVE CompareAppDbGroupsNoContinue(_, _, _, _)
CompareAppDbGroupsNoContinue(ids, map_app_db, map_cache, fails) ==
    IF Len(ids) = 0 THEN fails
    ELSE LET id == Head(ids)
             empty == [multicast_group_id |-> id, replicas |-> <<>>]
         IN IF id \notin DOMAIN map_cache
            THEN CompareAppDbGroupsNoContinue(Tail(ids), map_app_db, map_cache,
                     ComparePacketReplicationEntities(map_app_db[id], empty,
                         Append(fails,
                             <<"Packet replication cache is missing multicast group ID ",
                               Dec(id)>>)))
            ELSE CompareAppDbGroupsNoContinue(Tail(ids), map_app_db, map_cache,
                     ComparePacketReplicationEntities(map_app_db[id], map_cache[id],
                                                      fails))

\* The first loop: the groups of the AppDb map, in ascending id order.
RECURSIVE CompareAppDbGroups(_, _, _, _)
CompareAppDbGroups(ids, map_app_db, map_cache, fails) ==
    IF Len(ids) = 0 THEN fails
    ELSE LET id == Head(ids)
         IN IF id \notin DOMAIN map_cache
            THEN CompareAppDbGroups(Tail(ids), map_app_db, map_cache,
                     Append(fails,
                         <<"Packet replication cache is missing multicast group ID ",
                           Dec(id)>>))
            ELSE CompareAppDbGroups(Tail(ids), map_app_db, map_cache,
                     ComparePacketReplicationEntities(map_app_db[id], map_cache[id],
                                                      fails))

\* The second loop reporting nothing.
CompareCacheGroupsSilent(ids, map_app_db, fails) == fails

\* The second loop: the groups of the cache map, in ascending id order.
RECURSIVE CompareCacheGroups(_, _, _)
CompareCacheGroups(ids, map_app_db, fails) ==
    IF Len(ids) = 0 THEN fails
    ELSE LET id == Head(ids)
         IN IF id \notin DOMAIN map_app_db
            THEN CompareCacheGroups(Tail(ids), map_app_db,
                     Append(fails, <<"APP DB is missing multicast group ID ", Dec(id)>>))
            ELSE CompareCacheGroups(Tail(ids), map_app_db, fails)

ComparePacketReplicationTableEntries(in_app_db, in_cache) ==
    LET map_app_db == GroupMap(in_app_db, EmptyMap)
        map_cache == GroupMap(in_cache, EmptyMap)
        first == CompareAppDbGroups(Ascending(DOMAIN map_app_db), map_app_db,
                                    map_cache, <<>>)
    IN CompareCacheGroups(Ascending(DOMAIN map_cache), map_app_db, first)

(***************************************************************************)
(* Inputs.                                                                 *)
(***************************************************************************)
Replica(port, instance) == [port |-> port, instance |-> instance]

\* Ports: a plain one, one with the separator in it, one with the comparison
\* form's separator in it, the empty one, and one that ends like a field name.
Ports == {<<"E", "0">>, <<"E", ":", "1">>, <<"p", "_", "1">>}

FieldPorts == Ports \cup {<<>>, <<"a", ":", "0", "x", "1">>, <<":">>}

Instances == {U32(0, 0), U32(0, 26), UINT32_MAX}

FieldInstances == Instances \cup {U32(0, 1), U32(0, 10), U32(0, 255), U32(1, 0)}

GroupIds == {U32(0, 0), U32(0, 10), UINT32_MAX}

Replicas == {Replica(p, i) : p \in Ports, i \in Instances}

\* Entries of the round trip: replicas without a repeated (port, instance).
Entries ==
    {[multicast_group_id |-> g, replicas |-> rs] :
        g \in GroupIds, rs \in {s \in SeqUpTo(Replicas, MaxReplicas) : NoDup(s)}}

\* Entries of the batched serializer calls.
SerReplicas ==
    {Replica(<<"E", "0">>, U32(0, 0)), Replica(<<"E", ":", "1">>, U32(0, 26))}

SerEntries ==
    {[multicast_group_id |-> g, replicas |-> rs] :
        g \in {U32(0, 10), UINT32_MAX},
        rs \in {s \in SeqUpTo(SerReplicas, MaxReplicas) : NoDup(s)}}

\* What an unused variable holds.
NoReplica == Replica(<<>>, U32(0, 0))
NoEntry == [multicast_group_id |-> U32(0, 0), replicas |-> <<>>]
NoDecoded == [status |-> "NONE", port |-> <<>>, instance |-> U32(0, 0)]
NoKey == [status |-> "NONE", key |-> <<>>]
NoEntries == [status |-> "NONE", entries |-> <<>>]

fieldVars == <<replica, port_instance, decoded>>
serVars == <<update_type, entry, kfv_before, kfv_updates, kfv_initial, calls,
             update_key>>
dbVars == <<app_db, pre_entries>>
diffVars == <<entries_app_db, entries_cache, failures>>

(***************************************************************************)
(* The field codec on its own: encode one replica, decode the field name.  *)
(***************************************************************************)
InitField ==
    /\ pc = "start"
    /\ replica \in {Replica(p, i) : p \in FieldPorts, i \in FieldInstances}
    /\ port_instance = <<>>
    /\ decoded = NoDecoded
    /\ update_type = "UNSPECIFIED"
    /\ entry = NoEntry
    /\ kfv_before = <<>>
    /\ kfv_updates = <<>>
    /\ kfv_initial = kfv_updates
    /\ calls = <<>>
    /\ update_key = NoKey
    /\ app_db = <<>>
    /\ pre_entries = NoEntries
    /\ entries_app_db = <<>>
    /\ entries_cache = <<>>
    /\ failures = <<>>

EncodeField ==
    /\ pc = "start"
    /\ port_instance' = PortInstance(replica)
    /\ pc' = "encoded"
    /\ UNCHANGED <<replica, decoded, serVars, dbVars, diffVars>>

DecodeEncodedField ==
    /\ pc = "encoded"
    /\ decoded' = DecodeField(port_instance)
    /\ pc' = "decoded"
    /\ UNCHANGED <<replica, port_instance, serVars, dbVars, diffVars>>

NextField == EncodeField \/ DecodeEncodedField

SpecField == InitField /\ [][NextField]_vars

(***************************************************************************)
(* One entry through the serializer, the store and the reader.             *)
(***************************************************************************)
\* A tuple some earlier call left in the caller's vector.
EarlierKey == TablePrefix \o <<"7">>

InitialUpdates == {<<>>, <<[key |-> EarlierKey, op |-> "DEL", fvs |-> <<>>]>>}

Init ==
    /\ pc = "start"
    /\ replica = NoReplica
    /\ port_instance = <<>>
    /\ decoded = NoDecoded
    /\ update_type = "UNSPECIFIED"
    /\ entry = NoEntry
    /\ kfv_before = <<>>
    /\ kfv_updates \in InitialUpdates
    /\ kfv_initial = kfv_updates
    /\ calls = <<>>
    /\ update_key = NoKey
    /\ app_db = <<>>
    /\ pre_entries = NoEntries
    /\ entries_app_db = <<>>
    /\ entries_cache = <<>>
    /\ failures = <<>>

\* One call of CreatePacketReplicationTableUpdateForAppDb on the vector.
Call(type, e) ==
    LET r == CreatePacketReplicationTableUpdateForAppDb(type, e, kfv_updates)
    IN /\ update_type' = type
       /\ entry' = e
       /\ kfv_before' = kfv_updates
       /\ kfv_updates' = r.kfvs
       /\ kfv_initial' = kfv_initial
       /\ calls' = Append(calls, [update_type |-> type, entry |-> e,
                                  status |-> r.status])
       /\ update_key' = [status |-> r.status, key |-> r.key]

CreateUpdate ==
    /\ pc = "start"
    /\ \E type \in UpdateTypes, e \in Entries : Call(type, e)
    /\ pc' = "serialized"
    /\ UNCHANGED <<fieldVars, dbVars, diffVars>>

\* The store takes the batch.
ApplyUpdates ==
    /\ pc = "serialized"
    /\ app_db' = ApplyAll(app_db, kfv_updates)
    /\ pc' = "stored"
    /\ UNCHANGED <<fieldVars, serVars, pre_entries, diffVars>>

\* One call of GetAllAppDbPacketReplicationTableEntries on the table.
ReadEntries ==
    /\ pc = "stored"
    /\ pre_entries' = GetAllAppDbPacketReplicationTableEntries(app_db)
    /\ pc' = "read"
    /\ UNCHANGED <<fieldVars, serVars, app_db, diffVars>>

Next == CreateUpdate \/ ApplyUpdates \/ ReadEntries

Spec == Init /\ [][Next]_vars

(***************************************************************************)
(* Several calls of the serializer on one vector.                          *)
(***************************************************************************)
CreateBatchedUpdate ==
    /\ pc \in {"start", "batching"}
    /\ Len(calls) < MaxUpdates
    /\ \E type \in UpdateTypes, e \in SerEntries : Call(type, e)
    /\ pc' = "batching"
    /\ UNCHANGED <<fieldVars, dbVars, diffVars>>

NextBatch == CreateBatchedUpdate

SpecBatch == Init /\ [][NextBatch]_vars

(***************************************************************************)
(* The reader over a table other writers filled.                           *)
(***************************************************************************)
WrongTableKey == <<"w", "r", "o", "n", "g", "t", "a", "b", "l", "e", ":", "a">>

\* Keys of the table: two spellings of group 10, group 7, a remainder that is
\* no hex, an empty remainder, and a key of another table.
KeyPool ==
    {TablePrefix \o <<"a">>, TablePrefix \o <<"0", "x", "A">>, TablePrefix \o <<"7">>,
     TablePrefix \o <<"g">>, TablePrefix, WrongTableKey}

\* Field names: the serializer's form, the same replica without the marker,
\* a name without ':', a suffix that is no hex, and a port with ':' in it
\* followed by a signed, upper-case instance.
FieldPool ==
    {<<"E", "0", ":", "0", "x", "1">>, <<"E", "0", ":", "1">>, <<"E", "0">>,
     <<"E", "0", ":", "z", "z">>, <<"E", ":", "1", ":", "+", "0", "X", "1", "A">>}

\* The number of fields in the table.
RECURSIVE FieldCount(_)
FieldCount(db) ==
    IF Len(db) = 0 THEN 0 ELSE Len(Head(db).fvs) + FieldCount(Tail(db))

InitRead ==
    /\ pc = "stored"
    /\ replica = NoReplica
    /\ port_instance = <<>>
    /\ decoded = NoDecoded
    /\ update_type = "UNSPECIFIED"
    /\ entry = NoEntry
    /\ kfv_before = <<>>
    /\ kfv_updates = <<>>
    /\ kfv_initial = kfv_updates
    /\ calls = <<>>
    /\ update_key = NoKey
    /\ app_db = <<>>
    /\ pre_entries = NoEntries
    /\ entries_app_db = <<>>
    /\ entries_cache = <<>>
    /\ failures = <<>>

\* A writer of the store creates a key.
WriteKey ==
    /\ pc = "stored"
    /\ Len(app_db) < MaxKeys
    /\ \E key \in KeyPool :
          /\ \A i \in 1..Len(app_db) : app_db[i].key # key
          /\ app_db' = Append(app_db, [key |-> key, fvs |-> <<>>])
    /\ UNCHANGED <<pc, fieldVars, serVars, pre_entries, diffVars>>

\* A writer of the store adds a field to a key.
WriteField ==
    /\ pc = "stored"
    /\ FieldCount(app_db) < MaxFields
    /\ \E i \in 1..Len(app_db), field \in FieldPool :
          /\ \A j \in 1..Len(app_db[i].fvs) : app_db[i].fvs[j].field # field
          /\ app_db' = [app_db EXCEPT ![i].fvs =
                            Append(@, [field |-> field, value |-> "replica"])]
    /\ UNCHANGED <<pc, fieldVars, serVars, pre_entries, diffVars>>

NextRead == WriteKey \/ WriteField \/ ReadEntries

SpecRead == InitRead /\ [][NextRead]_vars

(***************************************************************************)
(* The comparison of two entry vectors a caller built.                     *)
(***************************************************************************)
DiffGroupIds == {U32(0, 7), U32(1, 0)}

DiffReplicas == {Replica(<<"E", "0">>, U32(0, 0)), Replica(<<"E", "4">>, U32(0, 10))}

\* The number of replicas in a vector of entries.
RECURSIVE ReplicaCount(_)
ReplicaCount(entries) ==
    IF Len(entries) = 0 THEN 0
    ELSE Len(Head(entries).replicas) + ReplicaCount(Tail(entries))

InitDiff ==
    /\ pc = "building"
    /\ replica = NoReplica
    /\ port_instance = <<>>
    /\ decoded = NoDecoded
    /\ update_type = "UNSPECIFIED"
    /\ entry = NoEntry
    /\ kfv_before = <<>>
    /\ kfv_updates = <<>>
    /\ kfv_initial = kfv_updates
    /\ calls = <<>>
    /\ update_key = NoKey
    /\ app_db = <<>>
    /\ pre_entries = NoEntries
    /\ entries_app_db = <<>>
    /\ entries_cache = <<>>
    /\ failures = <<>>

AddAppDbEntry ==
    /\ pc = "building"
    /\ Len(entries_app_db) < MaxEntries
    /\ \E id \in DiffGroupIds :
          entries_app_db' =
              Append(entries_app_db, [multicast_group_id |-> id, replicas |-> <<>>])
    /\ UNCHANGED <<pc, fieldVars, serVars, dbVars, entries_cache, failures>>

AddCacheEntry ==
    /\ pc = "building"
    /\ Len(entries_cache) < MaxEntries
    /\ \E id \in DiffGroupIds :
          entries_cache' =
              Append(entries_cache, [multicast_group_id |-> id, replicas |-> <<>>])
    /\ UNCHANGED <<pc, fieldVars, serVars, dbVars, entries_app_db, failures>>

AddAppDbReplica ==
    /\ pc = "building"
    /\ ReplicaCount(entries_app_db) + ReplicaCount(entries_cache) < MaxDiffReplicas
    /\ \E i \in 1..Len(entries_app_db), r \in DiffReplicas :
          entries_app_db' = [entries_app_db EXCEPT ![i].replicas = Append(@, r)]
    /\ UNCHANGED <<pc, fieldVars, serVars, dbVars, entries_cache, failures>>

AddCacheReplica ==
    /\ pc = "building"
    /\ ReplicaCount(entries_app_db) + ReplicaCount(entries_cache) < MaxDiffReplicas
    /\ \E i \in 1..Len(entries_cache), r \in DiffReplicas :
          entries_cache' = [entries_cache EXCEPT ![i].replicas = Append(@, r)]
    /\ UNCHANGED <<pc, fieldVars, serVars, dbVars, entries_app_db, failures>>

\* One call of ComparePacketReplicationTableEntries.
Compare ==
    /\ pc = "building"
    /\ failures' = ComparePacketReplicationTableEntries(entries_app_db, entries_cache)
    /\ pc' = "compared"
    /\ UNCHANGED <<fieldVars, serVars, dbVars, entries_app_db, entries_cache>>

NextDiff ==
    AddAppDbEntry \/ AddCacheEntry \/ AddAppDbReplica \/ AddCacheReplica \/ Compare

SpecDiff == InitDiff /\ [][NextDiff]_vars

(***************************************************************************)
(* The comparison of two entry vectors given whole.                        *)
(***************************************************************************)
OrderGroupIds == DiffGroupIds \cup {U32(0, 10)}

\* An entry of each group id, without replicas or with one.
OrderEntries ==
    {[multicast_group_id |-> id, replicas |-> rs] :
        id \in OrderGroupIds, rs \in {<<>>, <<Replica(<<"E", "0">>, U32(0, 0))>>}}

\* The vectors of at most MaxEntries entries, group ids repeated or not.
EntryVectors == UNION {[1..n -> OrderEntries] : n \in 0..MaxEntries}

InitOrder ==
    /\ pc = "building"
    /\ replica = NoReplica
    /\ port_instance = <<>>
    /\ decoded = NoDecoded
    /\ update_type = "UNSPECIFIED"
    /\ entry = NoEntry
    /\ kfv_before = <<>>
    /\ kfv_updates = <<>>
    /\ kfv_initial = kfv_updates
    /\ calls = <<>>
    /\ update_key = NoKey
    /\ app_db = <<>>
    /\ pre_entries = NoEntries
    /\ entries_app_db \in EntryVectors
    /\ entries_cache \in EntryVectors
    /\ failures = <<>>

NextOrder == Compare

SpecOrder == InitOrder /\ [][NextOrder]_vars

(***************************************************************************)
(* Properties.                                                             *)
(***************************************************************************)
\* text is the canonical lower-case hex spelling of n: hex digits 0-9a-f,
\* no leading zero, no marker, and it parses to n.
IsHexOf(text, n) ==
    /\ Len(text) >= 1
    /\ \A i \in 1..Len(text) : text[i] \in Range(LowerHexDigits)
    /\ Len(text) > 1 => text[1] # "0"
    /\ SimpleHexAtoi(text) = [ok |-> TRUE, value |-> n]

\* key is the table prefix followed by the hex of the group id.
IsKeyOf(key, group_id) ==
    /\ StartsWith(key, TablePrefix)
    /\ IsHexOf(SubSeq(key, Len(TablePrefix) + 1, Len(key)), group_id)

\* field is port ":0x" hex(instance).
IsFieldOf(field, r) ==
    LET n == Len(r.port)
    IN /\ Len(field) > n + 3
       /\ SubSeq(field, 1, n) = r.port
       /\ SubSeq(field, n + 1, n + 3) = <<":", "0", "x">>
       /\ IsHexOf(SubSeq(field, n + 4, Len(field)), r.instance)

\* C1: the record Serialize(entry, Insert) appends, applied to an empty
\* store and read back, gives exactly one entry, with the entry's group id
\* and the entry's replica set.
EntryRoundTrip ==
    (pc = "read" /\ update_type = "INSERT" /\ kfv_before = <<>>) =>
        /\ pre_entries.status = "OK"
        /\ Len(pre_entries.entries) = 1
        /\ pre_entries.entries[1].multicast_group_id = entry.multicast_group_id
        /\ Range(pre_entries.entries[1].replicas) = Range(entry.replicas)

\* An entry with the largest group id and two replicas, one of them on a
\* port with a ':' in it, was inserted and read back.
EntryRoundTripWitness ==
    /\ pc = "read" /\ update_type = "INSERT" /\ kfv_before = <<>>
    /\ entry.multicast_group_id = UINT32_MAX
    /\ Len(entry.replicas) = 2
    /\ \E i \in 1..2 : entry.replicas[i].port = <<"E", ":", "1">>
    /\ Len(pre_entries.entries) = 1

\* C2: a field name built from (port, instance) decodes, by the split at the
\* last ':' and the hex parse of what follows it, to exactly that port and
\* that instance, whatever ':' the port itself holds.
FieldRoundTrip ==
    pc = "decoded" =>
        /\ decoded.status = "OK"
        /\ decoded.port = replica.port
        /\ decoded.instance = replica.instance

\* A port with a ':' in it and the largest instance went through the codec.
FieldRoundTripWitness ==
    /\ pc = "decoded"
    /\ \E i \in 1..Len(replica.port) : replica.port[i] = ":"
    /\ replica.instance = UINT32_MAX
    /\ decoded.instance = UINT32_MAX

\* C3: Insert and Modify append the same record: SET, the key of the group,
\* one field port ":0x" hex(instance) with the placeholder value for every
\* replica of the entry; Delete appends DEL with that key and no field; the
\* returned key is the record's key.
SerializeShape ==
    (pc # "start" /\ update_type \in {"INSERT", "MODIFY", "DELETE"}) =>
        LET n == Len(kfv_before)
            record == kfv_updates[n + 1]
            other == IF update_type = "INSERT" THEN "MODIFY" ELSE "INSERT"
            twin == CreatePacketReplicationTableUpdateForAppDb(other, entry, kfv_before)
        IN /\ update_key.status = "OK"
           /\ Len(kfv_updates) = n + 1
           /\ SubSeq(kfv_updates, 1, n) = kfv_before
           /\ record.key = update_key.key
           /\ IsKeyOf(record.key, entry.multicast_group_id)
           /\ update_type \in {"INSERT", "MODIFY"} =>
                 /\ record.op = "SET"
                 /\ Len(record.fvs) = Len(entry.replicas)
                 /\ \A i \in 1..Len(entry.replicas) :
                       /\ IsFieldOf(record.fvs[i].field, entry.replicas[i])
                       /\ record.fvs[i].value = "replica"
                 /\ twin.kfvs = kfv_updates
                 /\ twin.key = update_key.key
           /\ update_type = "DELETE" =>
                 /\ record.op = "DEL"
                 /\ record.fvs = <<>>

\* A Modify of an entry with two replicas was appended behind an earlier
\* record.
SerializeShapeWitness ==
    /\ pc = "serialized"
    /\ update_type = "MODIFY"
    /\ Len(entry.replicas) = 2
    /\ kfv_before # <<>>
    /\ kfv_updates[Len(kfv_updates)].op = "SET"

\* C10: an update type other than Insert, Modify and Delete fails, returns
\* no key and leaves the caller's vector as it was.
UnsupportedUpdate ==
    (pc # "start" /\ update_type \notin {"INSERT", "MODIFY", "DELETE"}) =>
        /\ update_key.status = "INVALID_ARGUMENT"
        /\ update_key.key = <<>>
        /\ kfv_updates = kfv_before

\* An unspecified update type was given with a record already in the vector.
UnsupportedUpdateWitness ==
    /\ pc = "serialized"
    /\ update_type = "UNSPECIFIED"
    /\ Len(entry.replicas) > 0
    /\ kfv_before # <<>>
    /\ update_key.status = "INVALID_ARGUMENT"

\* The key has the table prefix.
HasTablePrefix(key) ==
    /\ Len(key) >= Len(TablePrefix)
    /\ \A i \in 1..Len(TablePrefix) : key[i] = TablePrefix[i]

\* The rows of the table whose key has the table prefix.
OwnRows(db) == SelectSeq(db, LAMBDA row : HasTablePrefix(row.key))

HasWrongTableKey == \E i \in 1..Len(app_db) : app_db[i].key = WrongTableKey

\* C7 as stated: a read of a store that holds the key "wrongtable:a" fails.
WrongTableKeyFails ==
    (pc = "read" /\ HasWrongTableKey) => pre_entries.status = "INVALID_ARGUMENT"

\* C7 amended: a read of a store that holds the key "wrongtable:a" returns
\* what the read of the store without that key returns; the key adds no entry
\* and no failure.  Only StripTableName, which the read never hands that key,
\* fails on it.
WrongTableKeySkipped ==
    /\ StripTableName(WrongTableKey).status = "INVALID_ARGUMENT"
    /\ (pc = "read" /\ HasWrongTableKey) =>
          pre_entries = GetAllAppDbPacketReplicationTableEntries(
                            SelectSeq(app_db, LAMBDA row : row.key # WrongTableKey))

\* The store held "wrongtable:a" behind a key of the table, and the read
\* returned the one entry of that key.
WrongTableKeyWitness ==
    /\ pc = "read"
    /\ Len(app_db) = 2
    /\ app_db[1].key = TablePrefix \o <<"a">>
    /\ app_db[2].key = WrongTableKey
    /\ pre_entries.status = "OK"
    /\ Len(pre_entries.entries) = 1

\* C8: the read returns what the read of the rows with the table prefix
\* returns, so keys of other tables add no entry and change no outcome; with
\* no key of the table the read is an empty sequence and no failure.
OtherTablesIgnored ==
    pc = "read" =>
        /\ pre_entries = GetAllAppDbPacketReplicationTableEntries(OwnRows(app_db))
        /\ OwnRows(app_db) = <<>> => pre_entries = [status |-> "OK", entries |-> <<>>]
        /\ pre_entries.status = "OK" => Len(pre_entries.entries) = Len(OwnRows(app_db))

\* The store held only a key of another table, with a field under it, and
\* the read returned the empty sequence.
OtherTablesIgnoredWitness ==
    /\ pc = "read"
    /\ Len(app_db) = 1
    /\ ~HasTablePrefix(app_db[1].key)
    /\ Len(app_db[1].fvs) = 1
    /\ pre_entries = [status |-> "OK", entries |-> <<>>]

\* The hex numerals absl::SimpleHexAtoi takes for a uint32_t: ASCII
\* whitespace around, then an optional '+', an optional 0x or 0X marker that
\* something follows, and one or more hex digits of either case, of which
\* at most eight follow the leading zeros.
ValidHex(text) ==
    \E i \in 1..Len(text), j \in 1..Len(text) :
        /\ i <= j
        /\ \A k \in 1..Len(text) : (k < i \/ k > j) => text[k] \in {" ", "\t", "\n", "\r"}
        /\ LET body == SubSeq(text, i, j)
               sign == IF body[1] = "+" THEN 1 ELSE 0
               marker == IF /\ Len(body) > sign + 2
                            /\ body[sign + 1] = "0"
                            /\ body[sign + 2] \in {"x", "X"}
                         THEN 2 ELSE 0
               digits == SubSeq(body, sign + marker + 1, Len(body))
               zeros == {k \in 0..Len(digits) : \A l \in 1..k : digits[l] = "0"}
               leading == CHOOSE k \in zeros : \A l \in zeros : l <= k
           IN /\ Len(digits) >= 1
              /\ \A k \in 1..Len(digits) :
                    digits[k] \in Range(LowerHexDigits) \cup Range(UpperHexDigits)
              /\ Len(digits) - leading <= 8

\* What follows the last ':' of a field name; nothing when there is no ':'.
HasSeparator(field) == \E i \in 1..Len(field) : field[i] = ":"

Suffix(field) ==
    LET last == CHOOSE i \in 1..Len(field) :
                    field[i] = ":" /\ \A j \in (i + 1)..Len(field) : field[j] # ":"
    IN SubSeq(field, last + 1, Len(field))

\* A row of the table is malformed: the remainder of its key is no hex, or
\* one of its field names has no ':' or no hex behind the last ':'.
MalformedRow(row) ==
    /\ HasTablePrefix(row.key)
    /\ \/ ~ValidHex(SubSeq(row.key, Len(TablePrefix) + 1, Len(row.key)))
       \/ \E k \in 1..Len(row.fvs) :
             \/ ~HasSeparator(row.fvs[k].field)
             \/ ~ValidHex(Suffix(row.fvs[k].field))

\* C9: when a key of the table or one of its field names is malformed, the
\* read fails and returns no entry, whatever well-formed keys the store also
\* holds.
ReadAllOrNothing ==
    pc = "read" =>
        /\ (\E i \in 1..Len(app_db) : MalformedRow(app_db[i])) =>
              pre_entries = [status |-> "INVALID_ARGUMENT", entries |-> <<>>]
        /\ pre_entries.status # "OK" => pre_entries.entries = <<>>

\* A well-formed key with a field came first, a key with a field name
\* without hex behind the ':' came second, and the read failed.
ReadAllOrNothingWitness ==
    /\ pc = "read"
    /\ Len(app_db) = 2
    /\ ~MalformedRow(app_db[1]) /\ HasTablePrefix(app_db[1].key)
    /\ Len(app_db[1].fvs) = 1
    /\ HasTablePrefix(app_db[2].key)
    /\ ValidHex(SubSeq(app_db[2].key, Len(TablePrefix) + 1, Len(app_db[2].key)))
    /\ MalformedRow(app_db[2])
    /\ pre_entries = [status |-> "INVALID_ARGUMENT", entries |-> <<>>]

\* How often x occurs in a sequence.
Count(seq, x) == Cardinality({i \in 1..Len(seq) : seq[i] = x})

\* The group ids of a vector of entries.
IdsOf(entries) == {entries[i].multicast_group_id : i \in 1..Len(entries)}

\* The entry of group g in a vector: the last one of that id.
EntryOf(entries, g) ==
    LET at == {i \in 1..Len(entries) : entries[i].multicast_group_id = g}
    IN entries[CHOOSE i \in at : \A j \in at : j <= i]

\* The messages, as the tuples of the pieces joined.
CacheMissingReplica(r, g) ==
    <<"Packet replication cache is missing replica ",
      r.port \o <<"_">> \o Dec(r.instance), " for group id ", Dec(g)>>

AppDbMissingReplica(r, g) ==
    <<"APP DB is missing replica ",
      r.port \o <<"_">> \o Dec(r.instance), " for group id ", Dec(g)>>

CacheMissingGroup(g) ==
    <<"Packet replication cache is missing multicast group ID ", Dec(g)>>

AppDbMissingGroup(g) == <<"APP DB is missing multicast group ID ", Dec(g)>>

\* The positions of the replica-level failures of group g.
MemberFailures(g) ==
    {i \in 1..Len(failures) : Len(failures[i]) = 4 /\ failures[i][4] = Dec(g)}

\* C4: for a group id in both arguments, one failure for every replica of
\* the first argument's entry that the second's lacks, worded as missing
\* from the second, one for every replica of the second's entry that the
\* first's lacks, worded as missing from the first, and none for a replica
\* of both; replicas are (port, instance) pairs.
MemberLevelDiff ==
    pc = "compared" =>
        \A g \in IdsOf(entries_app_db) \cap IdsOf(entries_cache) :
            LET P == Range(EntryOf(entries_app_db, g).replicas)
                S == Range(EntryOf(entries_cache, g).replicas)
            IN /\ \A r \in P \ S :
                     /\ Count(failures, CacheMissingReplica(r, g)) = 1
                     /\ Count(failures, AppDbMissingReplica(r, g)) = 0
               /\ \A r \in S \ P :
                     /\ Count(failures, AppDbMissingReplica(r, g)) = 1
                     /\ Count(failures, CacheMissingReplica(r, g)) = 0
               /\ \A r \in P \cap S :
                     /\ Count(failures, AppDbMissingReplica(r, g)) = 0
                     /\ Count(failures, CacheMissingReplica(r, g)) = 0
               /\ Cardinality(MemberFailures(g)) =
                     Cardinality(P \ S) + Cardinality(S \ P)

\* A group in both arguments had one replica in both entries and one more in
\* the cache's entry alone, and one failure came back.
MemberLevelDiffWitness ==
    /\ pc = "compared"
    /\ \E g \in IdsOf(entries_app_db) \cap IdsOf(entries_cache) :
          LET P == Range(EntryOf(entries_app_db, g).replicas)
              S == Range(EntryOf(entries_cache, g).replicas)
          IN Cardinality(P) = 1 /\ Cardinality(S) = 2 /\ P \subseteq S
    /\ Len(failures) = 1

\* C5: for a group id in exactly one argument, one missing-group failure
\* naming the side that lacks it, and no replica-level failure for that
\* group, however many replicas it has.
GroupLevelDiff ==
    pc = "compared" =>
        /\ \A g \in IdsOf(entries_app_db) \ IdsOf(entries_cache) :
              /\ Count(failures, CacheMissingGroup(g)) = 1
              /\ Count(failures, AppDbMissingGroup(g)) = 0
              /\ MemberFailures(g) = {}
        /\ \A g \in IdsOf(entries_cache) \ IdsOf(entries_app_db) :
              /\ Count(failures, AppDbMissingGroup(g)) = 1
              /\ Count(failures, CacheMissingGroup(g)) = 0
              /\ MemberFailures(g) = {}

\* A group with two replicas was in the first argument alone.
GroupLevelDiffWitness ==
    /\ pc = "compared"
    /\ entries_cache = <<>>
    /\ Len(entries_app_db) = 1
    /\ Cardinality(Range(entries_app_db[1].replicas)) = 2
    /\ failures = <<CacheMissingGroup(entries_app_db[1].multicast_group_id)>>

\* The failure that states the same fact with the two sides swapped.
SwapRoles(f) ==
    IF f[1] = "Packet replication cache is missing replica "
    THEN [f EXCEPT ![1] = "APP DB is missing replica "]
    ELSE IF f[1] = "APP DB is missing replica "
    THEN [f EXCEPT ![1] = "Packet replication cache is missing replica "]
    ELSE IF f[1] = "Packet replication cache is missing multicast group ID "
    THEN [f EXCEPT ![1] = "APP DB is missing multicast group ID "]
    ELSE [f EXCEPT ![1] = "Packet replication cache is missing multicast group ID "]

\* C6: the comparison with the arguments swapped returns as many failures,
\* and they are the failures of this comparison with the sides swapped, each
\* as often.
DiffSymmetry ==
    pc = "compared" =>
        LET swapped == [i \in 1..Len(failures) |-> SwapRoles(failures[i])]
            reverse == ComparePacketReplicationTableEntries(entries_cache,
                                                            entries_app_db)
        IN /\ Len(reverse) = Len(failures)
           /\ \A f \in Range(swapped) \cup Range(reverse) :
                 Count(swapped, f) = Count(reverse, f)

\* The comparison returned a missing group and a missing replica.
DiffSymmetryWitness ==
    /\ pc = "compared"
    /\ \E i, j \in 1..Len(failures) : Len(failures[i]) = 2 /\ Len(failures[j]) = 4
    /\ Len(failures) >= 3

\* The calls that returned a key, in call order.
Successful(cs) == SelectSeq(cs, LAMBDA c : c.status = "OK")

\* The record is the one a successful call appends.
IsRecordOf(record, c) ==
    /\ IsKeyOf(record.key, c.entry.multicast_group_id)
    /\ c.update_type \in {"INSERT", "MODIFY"} =>
          /\ record.op = "SET"
          /\ Len(record.fvs) = Len(c.entry.replicas)
          /\ \A i \in 1..Len(c.entry.replicas) :
                /\ IsFieldOf(record.fvs[i].field, c.entry.replicas[i])
                /\ record.fvs[i].value = "replica"
    /\ c.update_type = "DELETE" => record.op = "DEL" /\ record.fvs = <<>>
    /\ c.update_type \in {"INSERT", "MODIFY", "DELETE"}

\* C11: after any calls on one vector, the vector is what it held before
\* the first call, unchanged, followed by one record per successful call, in
\* call order; nothing earlier is moved, rewritten, merged or removed, also
\* not by a later call for the same key.
BatchKeepsCallOrder ==
    LET done == Successful(calls)
        n == Len(kfv_initial)
    IN /\ Len(kfv_updates) = n + Len(done)
       /\ SubSeq(kfv_updates, 1, n) = kfv_initial
       /\ \A i \in 1..Len(done) : IsRecordOf(kfv_updates[n + i], done[i])

\* An Insert and then a Delete of the same group were appended behind the
\* record the vector already held.
BatchKeepsCallOrderWitness ==
    /\ pc = "batching"
    /\ Len(kfv_initial) = 1
    /\ Len(calls) = 2
    /\ calls[1].update_type = "INSERT" /\ calls[2].update_type = "DELETE"
    /\ calls[1].entry.multicast_group_id = calls[2].entry.multicast_group_id
    /\ Len(calls[1].entry.replicas) = 2
    /\ Len(kfv_updates) = 3
    /\ kfv_updates[2].key = kfv_updates[3].key

\* The group id a failure message names: its last piece is the id in decimal.
GroupOf(f) ==
    CHOOSE g \in IdsOf(entries_app_db) \cup IdsOf(entries_cache) :
        f[Len(f)] = Dec(g)

\* The message is one of the second loop's.
FromCacheLoop(f) == f[1] = "APP DB is missing multicast group ID "

\* The orders the entries of a vector can be given in.
Orders(entries) ==
    {p \in [1..Len(entries) -> 1..Len(entries)] :
        \A i, j \in 1..Len(entries) : i # j => p[i] # p[j]}

\* The orders that leave entries of one group id in their relative order.
StableOrders(entries) ==
    {p \in Orders(entries) :
        \A i, j \in 1..Len(entries) :
            (i < j /\ entries[p[i]].multicast_group_id
                        = entries[p[j]].multicast_group_id) => p[i] < p[j]}

Reorder(entries, p) == [i \in 1..Len(entries) |-> entries[p[i]]]

\* C12 as stated: of any two messages the one about the smaller group id
\* comes first, also when one is from the first loop and the other from
\* the second, and the set of messages is the same for every order of the
\* entries of either vector.
EmissionFollowsGroupId ==
    pc = "compared" =>
        /\ \A i, j \in 1..Len(failures) :
              i < j => ~Less(GroupOf(failures[j]), GroupOf(failures[i]))
        /\ \A p \in Orders(entries_app_db), q \in Orders(entries_cache) :
              Range(ComparePacketReplicationTableEntries(
                        Reorder(entries_app_db, p), Reorder(entries_cache, q)))
                  = Range(failures)

\* C12: the messages of the first loop come in ascending group id order,
\* the messages of the second loop come behind all of them, in ascending
\* group id order among themselves, and the set of messages is the same
\* for every order of the entries of either vector that keeps the entries
\* of one group id in their relative order.
EmissionFollowsGroupIdPerLoop ==
    pc = "compared" =>
        /\ \A i, j \in 1..Len(failures) :
              i < j =>
                /\ FromCacheLoop(failures[i]) => FromCacheLoop(failures[j])
                /\ FromCacheLoop(failures[i]) = FromCacheLoop(failures[j]) =>
                      ~Less(GroupOf(failures[j]), GroupOf(failures[i]))
                /\ (FromCacheLoop(failures[i]) /\ FromCacheLoop(failures[j])) =>
                      Less(GroupOf(failures[i]), GroupOf(failures[j]))
        /\ \A p \in StableOrders(entries_app_db),
              q \in StableOrders(entries_cache) :
              Range(ComparePacketReplicationTableEntries(
                        Reorder(entries_app_db, p), Reorder(entries_cache, q)))
                  = Range(failures)

\* The AppDb vector lists group 65536 before group 10 and the cache vector
\* only group 7: the first loop's messages are in ascending order, and the
\* second loop's message about the smallest group comes last.
EmissionFollowsGroupIdWitness ==
    /\ pc = "compared"
    /\ Len(entries_app_db) = 2 /\ Len(entries_cache) = 1
    /\ entries_app_db[1].multicast_group_id = U32(1, 0)
    /\ entries_app_db[2].multicast_group_id = U32(0, 10)
    /\ failures = <<CacheMissingGroup(U32(0, 10)), CacheMissingGroup(U32(1, 0)),
                    AppDbMissingGroup(U32(0, 7))>>

\* The vector without the entries a later entry of the same group id follows.
KeepLast(entries) ==
    LET kept(i) == \A j \in (i + 1)..Len(entries) :
                       entries[j].multicast_group_id # entries[i].multicast_group_id
        F[i \in 0..Len(entries)] ==
            IF i = 0 THEN <<>>
            ELSE IF kept(i) THEN Append(F[i - 1], entries[i]) ELSE F[i - 1]
    IN F[Len(entries)]

\* Some group id has two entries in the vector.
HasDuplicateId(entries) ==
    \E i, j \in 1..Len(entries) :
        i < j /\ entries[i].multicast_group_id = entries[j].multicast_group_id

\* C13: with several entries of one group id in a vector the comparison
\* still returns, and it returns what it returns for the vectors in which
\* only the last entry of each group id is kept.
DuplicateIdLastWins ==
    pc = "compared" =>
        failures = ComparePacketReplicationTableEntries(KeepLast(entries_app_db),
                                                        KeepLast(entries_cache))

\* Two AppDb entries of one group with different replicas, the group in the
\* cache too: the messages are those of the second AppDb entry.
DuplicateIdLastWinsWitness ==
    /\ pc = "compared"
    /\ HasDuplicateId(entries_app_db)
    /\ Len(entries_cache) = 1
    /\ entries_cache[1].multicast_group_id = entries_app_db[1].multicast_group_id
    /\ entries_cache[1].replicas = <<>>
    /\ Len(entries_app_db[1].replicas) = 1
    /\ Len(entries_app_db[2].replicas) = 1
    /\ entries_app_db[1].replicas # entries_app_db[2].replicas
    /\ failures = <<CacheMissingReplica(entries_app_db[2].replicas[1],
                                        entries_app_db[2].multicast_group_id)>>

\* C14 as stated: in every entry a successful read returns no two replicas
\* have the same port and instance, whatever distinct field names the key
\* holds, also names that spell one instance in two ways.
ReadReplicasDistinct ==
    (pc = "read" /\ pre_entries.status = "OK") =>
        \A i \in 1..Len(pre_entries.entries) :
            NoDup(pre_entries.entries[i].replicas)

\* C15 as stated: a successful read returns one entry per key with the
\* table prefix and no two of the entries have the same group id, whatever
\* distinct keys the store holds, also keys that spell one id in two ways.
ReadGroupIdsDistinct ==
    (pc = "read" /\ pre_entries.status = "OK") =>
        /\ Len(pre_entries.entries) = Len(OwnRows(app_db))
        /\ \A i, j \in 1..Len(pre_entries.entries) :
              i # j => pre_entries.entries[i].multicast_group_id
                         # pre_entries.entries[j].multicast_group_id

====
